---- MODULE Spec2Model ----
(***************************************************************************)
(* Model of the connection-request monitor of the HCS-10 demo              *)
(* (monitorIncomingRequests, src/AGENT_WORKFLOW.md:214-315).               *)
(*                                                                         *)
(* The monitor polls its inbound topic, folds connection_created entries   *)
(* into processedRequestIds, filters the connection_request entries above  *)
(* lastProcessedMessage and accepts each one through the SDK.  The topic   *)
(* is an append-only log owned by the ledger: the sequence number of an    *)
(* entry is its position.  Steps of the model are the await points of the  *)
(* async function; the code between two awaits runs as one step.           *)
(***************************************************************************)
EXTENDS Integers, Sequences, FiniteSets, TLC

\* ------------------------------------------------------------------ bounds
MaxArrivals == 3   \* messages submitted to the topic by other agents
MaxRestarts == 1   \* times the monitor process is stopped and started again

MaxTopic == 2 * MaxArrivals   \* every request confirmed once fills the topic

\* ------------------------------------------------------------ message feed
ValidOperatorId == "0.0.7@0.0.9"
OperatorIds     == {"", ValidOperatorId}
ConnectionIds   == {0, 1, 2}            \* connection_id values other actors post; 0: the field is absent

ConnectionRequest(k, operatorId) ==
    [sequence_number |-> k, op |-> "connection_request",
     operator_id |-> operatorId, connection_id |-> 0]

ConnectionCreated(k, connectionId) ==
    [sequence_number |-> k, op |-> "connection_created",
     operator_id |-> "", connection_id |-> connectionId]

VARIABLES
    topic,                 \* the inbound topic on the ledger
    arrivals,              \* number of entries submitted by other agents
    epoch,                 \* number of restarts of the monitor process
    pc,                    \* await point the monitor is suspended at
    lastProcessedMessage,  \* the watermark
    processedRequestIds,   \* the processed set
    messages,              \* messages.messages of the current iteration
    connectionRequests,    \* the filtered batch of the current iteration
    idx,                   \* position in connectionRequests of the for loop
    log,                   \* logger lines written in the current iteration
    calls,                 \* history: handleConnectionRequest calls of this process, in order
    pollCalls,             \* history: request ids passed to handleConnectionRequest in this iteration
    failed,                \* history: request ids whose handleConnectionRequest threw in this process
    welcomeFailed,         \* history: request ids whose welcome sendMessage threw in this process
    accepted,              \* history: request ids whose handleConnectionRequest succeeded, any process
    returnedMax,           \* history: largest connection_request number returned to this process
    confirmedSeen,         \* history: connection_ids of connection_created entries returned to this process
    pollWatermark          \* history: lastProcessedMessage when the current iteration fetched the feed

\* the connect script (src/03_agent_connections/connect-agents.ts, main)
VARIABLES
    cpc,                   \* await point the connect script is suspended at
    targetInboundTopic,    \* line 57
    connectionMessage,     \* lines 71-72
    requestId,             \* connectionRequestId, lines 81 and 139; 0: not assigned
    connectionTopicId,     \* line 96; <<>>: null or not assigned
    sdkCalls,              \* history: client calls issued by the script, in order
    connectionFiles,       \* connection-*.json files in the working directory
    timedOut               \* history: waitForConnectionConfirmation rejected

connectVars == <<cpc, targetInboundTopic, connectionMessage, requestId,
                 connectionTopicId, sdkCalls, connectionFiles, timedOut>>

\* the registration script (src/02_agent_registration/register-agent.ts) and
\* the main function of the monitor script (src/AGENT_WORKFLOW.md:317-396)
VARIABLES
    rpc,                   \* position of the registration script
    agentTypeInput,        \* line 57
    envPrefix,             \* lines 61-75
    metadata,              \* line 188
    envFile,               \* the lines of .env in the working directory; <<>>: no file
    registrations,         \* number of runs of the registration script
    envBefore,             \* history: .env when the latest run started
    monitorMain,           \* outcome of the latest start of the monitor script
    inboundTopicId,        \* line 326 of the monitor's main
    monitorAt,             \* history: value of registrations when the monitor was started
    agentConfigFile,       \* agent-config.json in the working directory; <<>>: no file
    configReported,        \* the latest run logged 'Agent configuration saved to'
    profileMain            \* outcome of the profile script started after the latest run

configVars == <<agentConfigFile, configReported, profileMain>>

registerVars == <<rpc, agentTypeInput, envPrefix, metadata, envFile, registrations,
                  envBefore, monitorMain, inboundTopicId, monitorAt, configVars>>

\* the chat agent (src/03_agent_connections/connect-agents.ts:693-787)
VARIABLES
    chatpc,                \* position of the chat session
    memoryK,               \* this.config.memory.k
    chatMessages,          \* this.messages
    chatTurns,             \* number of processMessage calls made
    transcript             \* history: the user and assistant messages of the session, in order

chatVars == <<chatpc, memoryK, chatMessages, chatTurns, transcript>>

\* the responder of src/05_ai_agent_basic/agent-responses.ts, lines 112-208
VARIABLES
    rtopic,                \* the monitored topic on the ledger
    userSent,              \* number of messages users sent to the topic
    processedMessages,     \* line 112
    messageCount,          \* line 114
    callbacks,             \* the subscriber callbacks suspended at an await
    delivered,             \* history: per topic entry, times the subscription delivered it
    handledTimes           \* history: per topic entry, times a callback went past line 127

responderVars == <<rtopic, userSent, processedMessages, messageCount, callbacks,
                   delivered, handledTimes>>

\* one call of retryWithBackoff (src/unnamed/part_003:60-78)
VARIABLES
    retrypc,               \* await point of the call, or how it settled
    maxRetries,            \* line 62
    baseDelay,             \* line 63
    retryI,                \* the loop variable i
    result,                \* the value or error the call settled with
    events                 \* history: the calls of fn, their outcomes and the sleeps, in order

retryVars == <<retrypc, maxRetries, baseDelay, retryI, result, events>>

\* calls of updateEnvFile on one file
\* (src/02_agent_registration/register-agent.ts:10-38)
VARIABLES
    fileExists,            \* the file at envTextPath exists
    envText,               \* its content, a sequence of characters
    updateArgs,            \* the argument variables: the entries of the object, in insertion order
    applied,               \* number of calls made with this argument
    contentBefore,         \* history: the content the last call read
    contentOnce            \* history: the content after the first call

updateVars == <<fileExists, envText, updateArgs, applied, contentBefore, contentOnce>>

\* the scripts modelled after the registration script
laterScripts == <<chatVars, responderVars, retryVars, updateVars>>

\* the state of the scripts other than the monitor loop
scripts == <<connectVars, registerVars, laterScripts>>

monitorVars == <<topic, arrivals, epoch, pc, lastProcessedMessage, processedRequestIds,
                 messages, connectionRequests, idx, log, calls, pollCalls, failed,
                 welcomeFailed, accepted, returnedMax, confirmedSeen, pollWatermark>>

vars == <<monitorVars, scripts>>

\* ----------------------------------------------------------------- helpers
Max(a, b) == IF a >= b THEN a ELSE b

SetMax(S) == IF S = {} THEN 0 ELSE CHOOSE x \in S : \A y \in S : y <= x

Range(s) == {s[k] : k \in 1 .. Len(s)}

Last(s) == s[Len(s)]

RequestNumbers(msgs) ==
    {m.sequence_number : m \in {x \in Range(msgs) : x.op = "connection_request"}}

\* client.extractAccountFromOperatorId: the account part of "topic@account",
\* an empty result for an operator id that carries none
extractAccountFromOperatorId_None(operatorId) == ""

extractAccountFromOperatorId(operatorId) ==
    IF operatorId = ValidOperatorId THEN "0.0.9" ELSE ""

\* ------------------------------------------------- one iteration of the loop
\* lines 229-238: fold the connection_created entries into the processed set
MarkConfirmed_Off(msgs, processed) == processed

MarkConfirmed(msgs, processed) ==
    processed \cup
      {m.connection_id :
         m \in {x \in Range(msgs) : x.op = "connection_created" /\ x.connection_id # 0}}

\* lines 240-245: the connection requests above the watermark, in feed order
FilterRequests_NoWatermark(msgs, watermark) ==
    LET IsNew(m) == m.op = "connection_request"
    IN  SelectSeq(msgs, IsNew)

FilterRequests_NewestFirst(msgs, watermark) ==
    LET IsNew(m) == m.op = "connection_request" /\ m.sequence_number > watermark
        asc      == SelectSeq(msgs, IsNew)
    IN  [k \in 1 .. Len(asc) |-> asc[Len(asc) + 1 - k]]

FilterRequests_AtOrAbove(msgs, watermark) ==
    LET IsNew(m) == m.op = "connection_request" /\ m.sequence_number >= watermark
    IN  SelectSeq(msgs, IsNew)

FilterRequests(msgs, watermark) ==
    LET IsNew(m) == m.op = "connection_request" /\ m.sequence_number > watermark
    IN  SelectSeq(msgs, IsNew)

\* line 248
AdvanceWatermark_Off(watermark, m) == watermark

AdvanceWatermark_Next(watermark, m) == Max(watermark, m.sequence_number + 1)

AdvanceWatermark(watermark, m) == Max(watermark, m.sequence_number)

WarnInvalid    == <<"warning", "Invalid operator_id format, skipping">>
InfoSkip(n)    == <<"info", "already processed, skipping", n>>
ErrorFor(n)    == <<"error", "Error handling request", n>>
ErrorMonitor   == <<"error", "Error monitoring requests">>

\* lines 253-256: a request without an account id is skipped with a warning
SkipInvalid_Silent(lg) == lg

SkipInvalid(lg) == Append(lg, WarnInvalid)

\* the for loop with the watermark taken as Math.max over the whole batch,
\* which is -Infinity (here -1) for an empty batch
RECURSIVE ForLoop_BatchMax(_, _, _, _, _)
ForLoop_BatchMax(reqs, j, watermark, processed, lg) ==
    IF j > Len(reqs)
    THEN [pc |-> "sleep", idx |-> j,
          watermark |-> IF Len(reqs) = 0 THEN -1 ELSE watermark, log |-> lg]
    ELSE LET message   == reqs[j]
             w         == AdvanceWatermark(watermark, message)
             accountId == extractAccountFromOperatorId(message.operator_id)
             connectionRequestId == message.sequence_number
         IN  IF accountId = ""
             THEN ForLoop_BatchMax(reqs, j + 1, w, processed, SkipInvalid(lg))
             ELSE IF connectionRequestId \in processed
             THEN ForLoop_BatchMax(reqs, j + 1, w, processed,
                                   Append(lg, InfoSkip(connectionRequestId)))
             ELSE [pc |-> "handshake", idx |-> j, watermark |-> w, log |-> lg]

\* lines 247-263: the synchronous part of the for loop from position j on, up
\* to the next handleConnectionRequest call (line 275) or the end of the batch
RECURSIVE ForLoop(_, _, _, _, _)
ForLoop(reqs, j, watermark, processed, lg) ==
    IF j > Len(reqs)
    THEN [pc |-> "sleep", idx |-> j, watermark |-> watermark, log |-> lg]
    ELSE LET message   == reqs[j]
             w         == AdvanceWatermark(watermark, message)
             accountId == extractAccountFromOperatorId(message.operator_id)
             connectionRequestId == message.sequence_number
         IN  IF accountId = ""
             THEN ForLoop(reqs, j + 1, w, processed, SkipInvalid(lg))
             ELSE IF connectionRequestId \in processed
             THEN ForLoop(reqs, j + 1, w, processed,
                          Append(lg, InfoSkip(connectionRequestId)))
             ELSE [pc |-> "handshake", idx |-> j, watermark |-> w, log |-> lg]

\* the request the for loop is at while a call is awaited
Current == connectionRequests[idx].sequence_number

\* line 282
AddAccepted_Late(processed, n) == processed

AddAccepted_Replace(processed, n) == {n}

AddAccepted(processed, n) == processed \cup {n}

\* lines 304-307: the inner catch logs and the for loop goes on
AfterRequestError_Abort(reqs, j, watermark, processed, lg) ==
    [pc |-> "sleep", idx |-> j, watermark |-> watermark, log |-> lg]

AfterRequestError_Rethrow(reqs, j, watermark, processed, lg) ==
    [pc |-> "stopped", idx |-> j, watermark |-> watermark, log |-> lg]

AfterRequestError(reqs, j, watermark, processed, lg) ==
    ForLoop(reqs, j + 1, watermark, processed, lg)

\* lines 308-313: the outer catch logs and the while loop goes on to the sleep
AfterMonitorError_Exit(lg) == [pc |-> "stopped", log |-> Append(lg, ErrorMonitor)]

AfterMonitorError(lg) == [pc |-> "sleep", log |-> Append(lg, ErrorMonitor)]

\* -------------------------------------------------------------------- Init
\* the connect script has not been started
ConnectIdle ==
    /\ cpc = "idle"
    /\ targetInboundTopic = <<>>
    /\ connectionMessage = ""
    /\ requestId = 0
    /\ connectionTopicId = <<>>
    /\ sdkCalls = <<>>
    /\ connectionFiles = {}
    /\ timedOut = FALSE

\* no agent has been registered, the monitor script has not been started
NoMetadata ==
    [accountId |-> "", privateKey |-> "", inboundTopicId |-> "",
     outboundTopicId |-> "", profileTopicId |-> ""]

RegisterIdle ==
    /\ rpc = "idle"
    /\ agentTypeInput = ""
    /\ envPrefix = "DEMO"
    /\ metadata = NoMetadata
    /\ envFile = <<>>
    /\ registrations = 0
    /\ envBefore = <<>>
    /\ monitorMain = "idle"
    /\ inboundTopicId = ""
    /\ monitorAt = 0
    /\ agentConfigFile = <<>>
    /\ configReported = FALSE
    /\ profileMain = "idle"

\* no ConversationalAgent has been constructed
ChatIdle ==
    /\ chatpc = "idle"
    /\ memoryK = 0
    /\ chatMessages = <<>>
    /\ chatTurns = 0
    /\ transcript = <<>>

\* lines 112-114 of agent-responses.ts, before any message
ResponderIdle ==
    /\ rtopic = <<>>
    /\ userSent = 0
    /\ processedMessages = {}
    /\ messageCount = 0
    /\ callbacks = {}
    /\ delivered = <<>>
    /\ handledTimes = <<>>

\* retryWithBackoff has not been called
RetryIdle ==
    /\ retrypc = "idle"
    /\ maxRetries = 0
    /\ baseDelay = 0
    /\ retryI = 0
    /\ result = <<>>
    /\ events = <<>>

\* updateEnvFile has not been called
UpdateIdle ==
    /\ fileExists = FALSE
    /\ envText = <<>>
    /\ updateArgs = <<>>
    /\ applied = 0
    /\ contentBefore = <<>>
    /\ contentOnce = <<>>

\* none of the later scripts has been started
LaterIdle ==
    /\ ChatIdle
    /\ ResponderIdle
    /\ RetryIdle
    /\ UpdateIdle

\* lines 219-220 of the monitor, before the first iteration
MonitorInit ==
    /\ topic = <<>>
    /\ arrivals = 0
    /\ epoch = 0
    /\ pc = "poll"
    /\ lastProcessedMessage = 0
    /\ processedRequestIds = {}
    /\ messages = <<>>
    /\ connectionRequests = <<>>
    /\ idx = 1
    /\ log = <<>>
    /\ calls = <<>>
    /\ pollCalls = {}
    /\ failed = {}
    /\ welcomeFailed = {}
    /\ accepted = {}
    /\ returnedMax = 0
    /\ confirmedSeen = {}
    /\ pollWatermark = 0

Init ==
    /\ MonitorInit
    /\ ConnectIdle
    /\ RegisterIdle
    /\ LaterIdle

\* ---------------------------------------------------------------- the feed
\* another agent submits a connection request to the inbound topic
RequestArrives ==
    /\ arrivals < MaxArrivals
    /\ \E operatorId \in OperatorIds :
         topic' = Append(topic, ConnectionRequest(Len(topic) + 1, operatorId))
    /\ arrivals' = arrivals + 1
    /\ UNCHANGED <<epoch, pc, lastProcessedMessage, processedRequestIds, messages,
                   connectionRequests, idx, log, calls, pollCalls, failed,
                   welcomeFailed, accepted, returnedMax, confirmedSeen,
                   pollWatermark>>
    /\ UNCHANGED scripts

\* another actor posts a connection_created entry on the inbound topic
ConfirmationArrives ==
    /\ arrivals < MaxArrivals
    /\ \E connectionId \in ConnectionIds :
         topic' = Append(topic, ConnectionCreated(Len(topic) + 1, connectionId))
    /\ arrivals' = arrivals + 1
    /\ UNCHANGED <<epoch, pc, lastProcessedMessage, processedRequestIds, messages,
                   connectionRequests, idx, log, calls, pollCalls, failed,
                   welcomeFailed, accepted, returnedMax, confirmedSeen,
                   pollWatermark>>
    /\ UNCHANGED scripts

\* ------------------------------------------------------------- the monitor
\* the call made when the for loop stops at a request: line 275
CallsAfter(next, reqs) ==
    IF next.pc = "handshake" THEN <<reqs[next.idx].sequence_number>> ELSE <<>>

\* lines 227-263: getMessages resolves
GetMessagesOk ==
    /\ pc = "poll"
    /\ LET processed == MarkConfirmed(topic, processedRequestIds)
           reqs      == FilterRequests(topic, lastProcessedMessage)
           next      == ForLoop(reqs, 1, lastProcessedMessage, processed, <<>>)
       IN  /\ messages' = topic
           /\ processedRequestIds' = processed
           /\ connectionRequests' = reqs
           /\ idx' = next.idx
           /\ pc' = next.pc
           /\ lastProcessedMessage' = next.watermark
           /\ log' = next.log
           /\ calls' = calls \o CallsAfter(next, reqs)
           /\ pollCalls' = Range(CallsAfter(next, reqs))
    /\ returnedMax' = Max(returnedMax, SetMax(RequestNumbers(topic)))
    /\ confirmedSeen' = confirmedSeen \cup
         ({m.connection_id : m \in {x \in Range(topic) : x.op = "connection_created"}} \ {0})
    /\ pollWatermark' = lastProcessedMessage
    /\ UNCHANGED <<topic, arrivals, epoch, failed, welcomeFailed, accepted>>
    /\ UNCHANGED scripts

\* lines 227, 308-310: getMessages rejects
GetMessagesThrows ==
    /\ pc = "poll"
    /\ LET next == AfterMonitorError(<<>>)
       IN  /\ pc' = next.pc
           /\ log' = next.log
    /\ messages' = <<>>
    /\ connectionRequests' = <<>>
    /\ idx' = 1
    /\ pollCalls' = {}
    /\ pollWatermark' = lastProcessedMessage
    /\ UNCHANGED <<topic, arrivals, epoch, lastProcessedMessage, processedRequestIds,
                   calls, failed, welcomeFailed, accepted, returnedMax, confirmedSeen>>
    /\ UNCHANGED scripts

\* lines 275-295: handleConnectionRequest resolves; the SDK has posted the
\* connection_created entry for this request id on the inbound topic
HandshakeOk ==
    /\ pc = "handshake"
    /\ Len(topic) < MaxTopic
    /\ topic' = Append(topic, ConnectionCreated(Len(topic) + 1, Current))
    /\ processedRequestIds' = AddAccepted(processedRequestIds, Current)
    /\ accepted' = accepted \cup {Current}
    /\ pc' = "welcome"
    /\ UNCHANGED <<arrivals, epoch, lastProcessedMessage, messages, connectionRequests,
                   idx, log, calls, pollCalls, failed, welcomeFailed, returnedMax,
                   confirmedSeen,
                   pollWatermark>>
    /\ UNCHANGED scripts

\* the rest of the for loop after the try block of one request ended
Resume(next) ==
    /\ idx' = next.idx
    /\ pc' = next.pc
    /\ lastProcessedMessage' = next.watermark
    /\ log' = next.log
    /\ calls' = calls \o CallsAfter(next, connectionRequests)
    /\ pollCalls' = pollCalls \cup Range(CallsAfter(next, connectionRequests))

\* lines 275, 304-306: handleConnectionRequest rejects
HandshakeThrows ==
    /\ pc = "handshake"
    /\ failed' = failed \cup {Current}
    /\ Resume(AfterRequestError(connectionRequests, idx, lastProcessedMessage,
                                processedRequestIds, Append(log, ErrorFor(Current))))
    /\ UNCHANGED <<topic, arrivals, epoch, processedRequestIds, messages,
                   connectionRequests, welcomeFailed, accepted, returnedMax,
                   confirmedSeen,
                   pollWatermark>>
    /\ UNCHANGED scripts

\* lines 295-302: the welcome sendMessage resolves
WelcomeOk ==
    /\ pc = "welcome"
    /\ Resume(ForLoop(connectionRequests, idx + 1, lastProcessedMessage,
                      processedRequestIds, log))
    /\ UNCHANGED <<topic, arrivals, epoch, processedRequestIds, messages,
                   connectionRequests, failed, welcomeFailed, accepted, returnedMax,
                   confirmedSeen,
                   pollWatermark>>
    /\ UNCHANGED scripts

\* lines 295, 304-306: the welcome sendMessage rejects
WelcomeThrows ==
    /\ pc = "welcome"
    /\ welcomeFailed' = welcomeFailed \cup {Current}
    /\ Resume(AfterRequestError(connectionRequests, idx, lastProcessedMessage,
                                processedRequestIds, Append(log, ErrorFor(Current))))
    /\ UNCHANGED <<topic, arrivals, epoch, processedRequestIds, messages,
                   connectionRequests, failed, accepted, returnedMax, confirmedSeen,
                   pollWatermark>>
    /\ UNCHANGED scripts

\* lines 312-313: the two-second timer fires and the while loop starts over
Sleep ==
    /\ pc = "sleep"
    /\ pc' = "poll"
    /\ UNCHANGED <<topic, arrivals, epoch, lastProcessedMessage, processedRequestIds,
                   messages, connectionRequests, idx, log, calls, pollCalls, failed,
                   welcomeFailed, accepted, returnedMax, confirmedSeen,
                   pollWatermark>>
    /\ UNCHANGED scripts

\* the operator stops the process and starts the monitor again on the same
\* topic: lines 219-220 run anew, the ledger keeps the topic
Restart ==
    /\ epoch < MaxRestarts
    /\ epoch' = epoch + 1
    /\ pc' = "poll"
    /\ lastProcessedMessage' = 0
    /\ processedRequestIds' = {}
    /\ messages' = <<>>
    /\ connectionRequests' = <<>>
    /\ idx' = 1
    /\ log' = <<>>
    /\ calls' = <<>>
    /\ pollCalls' = {}
    /\ failed' = {}
    /\ welcomeFailed' = {}
    /\ returnedMax' = 0
    /\ confirmedSeen' = {}
    /\ pollWatermark' = 0
    /\ UNCHANGED <<topic, arrivals, accepted>>
    /\ UNCHANGED scripts

\* the steps of the topic and of one running monitor process
Running ==
    \/ RequestArrives
    \/ ConfirmationArrives
    \/ GetMessagesOk
    \/ GetMessagesThrows
    \/ HandshakeOk
    \/ HandshakeThrows
    \/ WelcomeOk
    \/ WelcomeThrows
    \/ Sleep

Next ==
    \/ RequestArrives
    \/ ConfirmationArrives
    \/ GetMessagesOk
    \/ GetMessagesThrows
    \/ HandshakeOk
    \/ HandshakeThrows
    \/ WelcomeOk
    \/ WelcomeThrows
    \/ Sleep
    \/ Restart

Spec == Init /\ [][Next]_vars

\* every awaited promise settles and the timer fires
AwaitsSettle ==
    /\ WF_vars(GetMessagesOk \/ GetMessagesThrows)
    /\ WF_vars(HandshakeOk \/ HandshakeThrows)
    /\ WF_vars(WelcomeOk \/ WelcomeThrows)
    /\ WF_vars(Sleep)

\* a monitor process that is not stopped from outside
FairSpec == Init /\ [][Running]_vars /\ AwaitsSettle

\* in addition, getMessages does not reject forever
FetchFairSpec == Init /\ [][Running]_vars /\ AwaitsSettle /\ SF_vars(GetMessagesOk)

TypeOK ==
    /\ Len(topic) <= MaxTopic
    /\ pc \in {"poll", "handshake", "welcome", "sleep"}
    /\ lastProcessedMessage \in 0 .. MaxTopic
    /\ processedRequestIds \subseteq 1 .. MaxTopic
    /\ idx \in 1 .. Len(connectionRequests) + 1

\* ------------------------------------------------------------- properties
Count(s, e) == Cardinality({k \in 1 .. Len(s) : s[k] = e})

IsMalformed(m) ==
    m.op = "connection_request" /\ extractAccountFromOperatorId(m.operator_id) = ""

\* a step in which handleConnectionRequest is called
NewCall == Len(calls') > Len(calls)

\* the monitor has finished an iteration in which getMessages resolved
PollDone == pc = "sleep" /\ ErrorMonitor \notin Range(log)

\* C1: within one process, handleConnectionRequest is called at most once for
\* any request sequence number, whatever the polls return.
TheoremC1 == \A a, b \in 1 .. Len(calls) : calls[a] = calls[b] => a = b

\* a request whose handshake threw came back, still unconfirmed, in a later
\* poll, and that poll made no call for it
WitnessC1 ==
    \E n \in failed :
        /\ PollDone
        /\ n \in RequestNumbers(messages)
        /\ n \notin processedRequestIds
        /\ n \notin pollCalls
        /\ Count(calls, n) = 1

\* C2: a request whose handleConnectionRequest threw is called again by every
\* later poll that returns it while it is still unconfirmed.
ClaimC2 ==
    pc = "sleep" =>
        \A n \in failed :
            (n \in RequestNumbers(messages) /\ n \notin processedRequestIds)
                => n \in pollCalls

\* C3: after a successful handleConnectionRequest for n, n is in the processed
\* set while the welcome sendMessage is awaited; a failing welcome message
\* leaves n in the set and n is never passed to handleConnectionRequest again.
TheoremC3 ==
    /\ [](pc = "welcome" => Current \in processedRequestIds)
    /\ [][(pc = "welcome" /\ epoch' = epoch) =>
             LET n == Current IN n \in processedRequestIds']_vars
    /\ [][NewCall => Last(calls') \notin welcomeFailed]_vars

\* the welcome message of n failed and a later poll returned n again
WitnessC3 ==
    \E n \in welcomeFailed :
        /\ PollDone
        /\ n \in processedRequestIds
        /\ n \in RequestNumbers(messages)
        /\ n \notin pollCalls

TheoremC5 ==
    /\ [](confirmedSeen \subseteq processedRequestIds)
    /\ [][NewCall => Last(calls') \notin confirmedSeen']_vars

\* a request confirmed by another actor, never invoked by this monitor, was
\* skipped as already processed
WitnessC5 ==
    \E n \in confirmedSeen :
        /\ epoch = 0
        /\ n \notin accepted
        /\ n \notin Range(calls)
        /\ InfoSkip(n) \in Range(log)

\* C6: the watermark starts at 0, never decreases within a process, and after
\* every poll equals the largest connection_request number any poll returned.
TheoremC6 ==
    /\ lastProcessedMessage = 0
    /\ [][epoch' # epoch => lastProcessedMessage' = 0]_vars
    /\ [][epoch' = epoch => lastProcessedMessage' >= lastProcessedMessage]_vars
    /\ [](pc = "sleep" => lastProcessedMessage = returnedMax)

\* the largest request returned was skipped as already processed and the
\* watermark stands at it
WitnessC6 ==
    /\ PollDone
    /\ lastProcessedMessage > 0
    /\ lastProcessedMessage \notin Range(calls)
    /\ InfoSkip(lastProcessedMessage) \in Range(log)

\* C7: the watermark reaches the number of a request only after that request
\* was fully evaluated, and every request the loop went past was checked
\* against the processed set.
ClaimC7 ==
    /\ pc \in {"handshake", "welcome"} => lastProcessedMessage < Current
    /\ \A j \in 1 .. Len(connectionRequests) :
         LET n == connectionRequests[j].sequence_number
         IN  (j < idx /\ n <= lastProcessedMessage) =>
                 (n \in Range(calls) \/ InfoSkip(n) \in Range(log))

\* the requests of the batch the for loop has gone past
Evaluated == {connectionRequests[j] : j \in 1 .. (idx - 1)}

\* every id in the processed set was confirmed on the topic or accepted here
ProcessedJustified ==
    processedRequestIds \subseteq (confirmedSeen \cup (Range(calls) \cap accepted))

HandshakeThrew ==
    /\ pc = "handshake"
    /\ epoch' = epoch
    /\ pc' # "welcome"
    /\ (pc' # pc \/ idx' # idx)

\* C9: when handleConnectionRequest throws for a request, the error is logged,
\* the id is not added to the processed set, and the later requests of the
\* batch are evaluated in the same poll.
TheoremC9 ==
    /\ [][HandshakeThrew =>
            LET n == Current
            IN  /\ n \notin processedRequestIds'
                /\ Count(log', ErrorFor(n)) = Count(log, ErrorFor(n)) + 1
                /\ idx' > idx]_vars
    /\ [](pc = "sleep" => idx = Len(connectionRequests) + 1)

\* the handshake of one request threw and a later request of the same batch
\* was passed to handleConnectionRequest in the same poll
WitnessC9 ==
    \E j, k \in 1 .. Len(connectionRequests) :
        /\ j < k
        /\ PollDone
        /\ connectionRequests[j].sequence_number \in failed \cap pollCalls
        /\ ErrorFor(connectionRequests[j].sequence_number) \in Range(log)
        /\ connectionRequests[j].sequence_number \notin processedRequestIds
        /\ connectionRequests[k].sequence_number \in pollCalls

\* a step in which getMessages rejects
GetMessagesThrew == pc = "poll" /\ pc' # "poll"  /\ ErrorMonitor \in Range(log')

\* C10: a poll whose getMessages throws makes no handleConnectionRequest call,
\* leaves the watermark and the processed set unchanged and goes to the sleep,
\* after which the loop polls again.
TheoremC10 ==
    /\ [][GetMessagesThrew =>
            /\ calls' = calls
            /\ lastProcessedMessage' = lastProcessedMessage
            /\ processedRequestIds' = processedRequestIds
            /\ pc' = "sleep"]_vars
    /\ [](pc = "sleep" => ENABLED Sleep)
    /\ [][(pc = "sleep" /\ pc' # pc) => pc' = "poll"]_vars

\* after a poll that threw, with requests handled before, the loop slept and
\* is about to poll again
WitnessC10 ==
    /\ pc = "poll"
    /\ ErrorMonitor \in Range(log)
    /\ lastProcessedMessage > 0
    /\ processedRequestIds # {}

\* a failure has been logged in the current iteration
FailureLogged == \E k \in 1 .. Len(log) : log[k][1] \in {"error", "warning"}

\* C11: no failure inside an iteration ends the loop: the monitor is always at
\* one of its await points, after a logged failure it reaches the sleep, and
\* after the sleep it polls again.
TheoremC11 ==
    /\ [](pc \in {"poll", "handshake", "welcome", "sleep"})
    /\ (FailureLogged ~> pc = "sleep")
    /\ (pc = "sleep" ~> pc = "poll")

\* an iteration with a malformed request, a failed handshake and a failed
\* welcome message is over and the loop is about to poll again
WitnessC11 ==
    /\ pc = "poll"
    /\ WarnInvalid \in Range(log)
    /\ \E n \in failed, m \in welcomeFailed :
         ErrorFor(n) \in Range(log) /\ ErrorFor(m) \in Range(log)

\* C12: the handleConnectionRequest calls of a process are in increasing
\* request number order, within one poll and across polls.
TheoremC12 == \A a, b \in 1 .. Len(calls) : a < b => calls[a] < calls[b]

\* one call in an earlier poll and two calls in the current one
WitnessC12 == Len(calls) = 3 /\ Cardinality(pollCalls) = 2

\* the entry of the fetched feed with sequence number n
MessageAt(n) == CHOOSE m \in Range(messages) : m.sequence_number = n

\* the ids that were in the processed set when the for loop of this iteration
\* looked at them: an id enters the set during the loop only by its own call
ProcessedBeforeCall == processedRequestIds \ pollCalls

\* the calls of the current iteration, in call order
PollCallSeq == SubSeq(calls, Len(calls) - Cardinality(pollCalls) + 1, Len(calls))

\* C13 as stated: the requests passed to handleConnectionRequest in a poll
\* are exactly the connection_request entries above the watermark of the poll
\* start that are not in the processed set, in ascending order.
ClaimC13 ==
    PollDone =>
        /\ pollCalls = {n \in RequestNumbers(messages) :
                          n > pollWatermark /\ n \notin ProcessedBeforeCall}
        /\ \A a, b \in 1 .. Len(PollCallSeq) : a < b => PollCallSeq[a] < PollCallSeq[b]

\* C13 amended: ... that are not in the processed set and whose operator_id
\* yields an account id, in ascending order.
TheoremC13 ==
    LET eligible == {n \in RequestNumbers(messages) :
                       /\ n > pollWatermark
                       /\ n \notin ProcessedBeforeCall
                       /\ extractAccountFromOperatorId(MessageAt(n).operator_id) # ""}
    IN  /\ pollCalls \subseteq eligible
        /\ PollDone => pollCalls = eligible
        /\ Range(PollCallSeq) = pollCalls
        /\ \A a, b \in 1 .. Len(PollCallSeq) : a < b => PollCallSeq[a] < PollCallSeq[b]

\* a later poll passed a request on while the feed also held an older request
\* and a newer malformed one
WitnessC13 ==
    /\ PollDone
    /\ pollWatermark > 0
    /\ pollCalls # {}
    /\ \E m \in Range(messages) : IsMalformed(m) /\ m.sequence_number > pollWatermark

\* the end-to-end scenario: request 1 accepted in the first poll, the second
\* poll returned request 1 and its confirmation at sequence number 2
ScenarioC14 ==
    /\ epoch = 0
    /\ PollDone
    /\ 1 \in accepted
    /\ messages = <<ConnectionRequest(1, ValidOperatorId), ConnectionCreated(2, 1)>>

\* C14 as stated: in the scenario handleConnectionRequest was called exactly
\* once and the watermark ends at 2.
ClaimC14 == ScenarioC14 => (Len(calls) = 1 /\ lastProcessedMessage = 2)

\* C14 amended: in the scenario handleConnectionRequest was called exactly
\* once and the watermark ends at 1, the number of the request.
TheoremC14 == ScenarioC14 => (calls = <<1>> /\ lastProcessedMessage = 1)

\* the second poll of the scenario is over
WitnessC14 == ScenarioC14 /\ pollCalls = {} /\ connectionRequests = <<>>

\* a step in which getMessages resolves with an empty list
EmptyFeedReturned ==
    pc = "poll" /\ pc' # "poll" /\ messages' = <<>> /\ ErrorMonitor \notin Range(log')

\* C15: a poll whose feed has no entries makes no call, leaves the watermark
\* and the processed set unchanged and logs no error.
TheoremC15 ==
    [][EmptyFeedReturned =>
          /\ calls' = calls
          /\ lastProcessedMessage' = lastProcessedMessage
          /\ processedRequestIds' = processedRequestIds
          /\ log' = <<>>
          /\ pc' = "sleep"]_vars

\* a poll of the empty topic is over
WitnessC15 == PollDone /\ messages = <<>> /\ topic = <<>> /\ log = <<>>

\* C16: within a process no step removes an id from the processed set.
TheoremC16 == [][epoch' = epoch => processedRequestIds \subseteq processedRequestIds']_vars

\* the set holds an id confirmed by another actor and an id accepted here
WitnessC16 ==
    /\ PollDone
    /\ \E n \in processedRequestIds \cap Range(calls) : TRUE
    /\ \E n \in processedRequestIds \ accepted : TRUE

\* n is a connection request on the inbound topic with a valid operator id
ValidRequestOnTopic(n) ==
    /\ n <= Len(topic)
    /\ topic[n] = ConnectionRequest(n, ValidOperatorId)

\* the valid requests on the topic that were neither passed to
\* handleConnectionRequest by this process nor are in its processed set
Pending ==
    {n \in 1 .. Len(topic) :
        ValidRequestOnTopic(n) /\ n \notin Range(calls) /\ n \notin processedRequestIds}

\* C17: while the monitor runs and fetches eventually succeed, every valid
\* connection request on the topic is eventually passed to
\* handleConnectionRequest, unless its id is in the processed set: again and
\* again no such request is left waiting.
TheoremC17 == []<>(Pending = {})

\* a request that arrived while the monitor was running was passed on by a
\* later poll
WitnessC17 ==
    \E n \in pollCalls :
        /\ pollWatermark > 0
        /\ n > pollWatermark
        /\ ValidRequestOnTopic(n)

\* ====================================================== the connect script
\* src/03_agent_connections/connect-agents.ts, lines 9-160.  The script is a
\* process of its own; the steps are its await points.
MaxRequestId == 3          \* sequence numbers the ledger may assign to the request
MaxConnectionTopics == 2   \* connection topics the accepting agent may create

ConfirmationTimeoutSeconds == 30   \* line 20
ConfirmationPollMs == 2000         \* line 21

\* a Hedera entity id shard.realm.num
TopicId(num) == <<0, 0, num>>

TargetTopics == {TopicId(1), TopicId(2)}

ConnectionTopics == {TopicId(10 + k) : k \in 1 .. MaxConnectionTopics}

\* getUserInput answers; "" and <<>> are the empty answer
TargetInputs == TargetTopics \cup {<<>>}
MessageInputs == {"", "hi"}

DefaultConnectionMessage == "Hello! I would like to connect from the Hedera Africa Demo."

SubmitCall(target, message) ==
    [call |-> "submitConnectionRequest", args |-> <<target, message>>]

WaitCall(target, id) ==
    [call |-> "waitForConnectionConfirmation",
     args |-> <<target, id, ConfirmationTimeoutSeconds, ConfirmationPollMs>>]

SendCall(connectionTopic) ==
    [call |-> "sendMessage",
     args |-> <<connectionTopic, "greeting", "First message after connection">>]

\* line 144: connection-${connectionTopicId.replace(/\./g, '_')}.json
ConnectionFileName(connectionTopic) ==
    [prefix |-> "connection-", parts |-> connectionTopic, separator |-> "_",
     suffix |-> ".json"]

\* lines 136-141
ConnectionInfo(connectionTopic, target, id) ==
    [connectionTopicId |-> connectionTopic, targetInboundTopic |-> target,
     requestId |-> id]

\* lines 102-107: what follows the wait
ConfirmationGate_Open(connectionTopic) == "send"

ConfirmationGate(connectionTopic) ==
    IF connectionTopic = <<>> THEN "returned" ELSE "send"

\* the script is started; Init of the connect script's specification
ConnectInit ==
    /\ MonitorInit
    /\ RegisterIdle
    /\ LaterIdle
    /\ cpc = "start"
    /\ targetInboundTopic = <<>>
    /\ connectionMessage = ""
    /\ requestId = 0
    /\ connectionTopicId = <<>>
    /\ sdkCalls = <<>>
    /\ connectionFiles = {}
    /\ timedOut = FALSE

\* lines 57-79: the two prompts, then submitConnectionRequest is issued
StartConnect ==
    /\ cpc = "start"
    /\ \E target \in TargetInputs, answer \in MessageInputs :
         LET message == IF answer = "" THEN DefaultConnectionMessage ELSE answer
         IN  /\ targetInboundTopic' = target
             /\ IF target = <<>>
                THEN /\ cpc' = "exit1"
                     /\ UNCHANGED <<connectionMessage, sdkCalls>>
                ELSE /\ cpc' = "submit"
                     /\ connectionMessage' = message
                     /\ sdkCalls' = Append(sdkCalls, SubmitCall(target, message))
    /\ UNCHANGED <<requestId, connectionTopicId, connectionFiles, timedOut>>
    /\ UNCHANGED <<monitorVars, registerVars, laterScripts>>

\* lines 74-100: submitConnectionRequest resolves; topicSequenceNumber 0
\* stands for a receipt without a sequence number
SubmitResolves ==
    /\ cpc = "submit"
    /\ \E topicSequenceNumber \in 0 .. MaxRequestId :
         IF topicSequenceNumber = 0
         THEN /\ cpc' = "exit1"
              /\ UNCHANGED <<requestId, sdkCalls>>
         ELSE /\ cpc' = "confirm"
              /\ requestId' = topicSequenceNumber
              /\ sdkCalls' = Append(sdkCalls,
                                    WaitCall(targetInboundTopic, topicSequenceNumber))
    /\ UNCHANGED <<targetInboundTopic, connectionMessage, connectionTopicId,
                   connectionFiles, timedOut>>
    /\ UNCHANGED <<monitorVars, registerVars, laterScripts>>

\* lines 74, 153-156: submitConnectionRequest rejects
SubmitRejects ==
    /\ cpc = "submit"
    /\ cpc' = "exit1"
    /\ UNCHANGED <<targetInboundTopic, connectionMessage, requestId, connectionTopicId,
                   sdkCalls, connectionFiles, timedOut>>
    /\ UNCHANGED <<monitorVars, registerVars, laterScripts>>

\* lines 102-129 after the wait returned connectionTopic
AfterConfirmation(connectionTopic) ==
    /\ connectionTopicId' = connectionTopic
    /\ cpc' = ConfirmationGate(connectionTopic)
    /\ sdkCalls' = IF ConfirmationGate(connectionTopic) = "send"
                   THEN Append(sdkCalls, SendCall(connectionTopic))
                   ELSE sdkCalls

\* lines 17-25, 96-129: waitForConnectionConfirmation resolves
ConfirmationArrived ==
    /\ cpc = "confirm"
    /\ \E connectionTopic \in ConnectionTopics \cup {<<>>} :
         AfterConfirmation(connectionTopic)
    /\ UNCHANGED <<targetInboundTopic, connectionMessage, requestId, connectionFiles,
                   timedOut>>
    /\ UNCHANGED <<monitorVars, registerVars, laterScripts>>

\* lines 26-29, 96-107: waitForConnectionConfirmation rejects after the timeout
ConfirmationTimedOut ==
    /\ cpc = "confirm"
    /\ timedOut' = TRUE
    /\ AfterConfirmation(<<>>)
    /\ UNCHANGED <<targetInboundTopic, connectionMessage, requestId, connectionFiles>>
    /\ UNCHANGED <<monitorVars, registerVars, laterScripts>>

\* lines 123-145: sendMessage resolves, writeFile is issued
SendResolves ==
    /\ cpc = "send"
    /\ cpc' = "save"
    /\ UNCHANGED <<targetInboundTopic, connectionMessage, requestId, connectionTopicId,
                   sdkCalls, connectionFiles, timedOut>>
    /\ UNCHANGED <<monitorVars, registerVars, laterScripts>>

\* lines 123, 153-156: sendMessage rejects
SendRejects ==
    /\ cpc = "send"
    /\ cpc' = "exit1"
    /\ UNCHANGED <<targetInboundTopic, connectionMessage, requestId, connectionTopicId,
                   sdkCalls, connectionFiles, timedOut>>
    /\ UNCHANGED <<monitorVars, registerVars, laterScripts>>

\* lines 145-159: writeFile resolves
SaveResolves ==
    /\ cpc = "save"
    /\ cpc' = "completed"
    /\ connectionFiles' = connectionFiles \cup
         {[name |-> ConnectionFileName(connectionTopicId),
           content |-> ConnectionInfo(connectionTopicId, targetInboundTopic, requestId)]}
    /\ UNCHANGED <<targetInboundTopic, connectionMessage, requestId, connectionTopicId,
                   sdkCalls, timedOut>>
    /\ UNCHANGED <<monitorVars, registerVars, laterScripts>>

\* lines 145, 153-156: writeFile rejects
SaveRejects ==
    /\ cpc = "save"
    /\ cpc' = "exit1"
    /\ UNCHANGED <<targetInboundTopic, connectionMessage, requestId, connectionTopicId,
                   sdkCalls, connectionFiles, timedOut>>
    /\ UNCHANGED <<monitorVars, registerVars, laterScripts>>

ConnectNext ==
    \/ StartConnect
    \/ SubmitResolves
    \/ SubmitRejects
    \/ ConfirmationArrived
    \/ ConfirmationTimedOut
    \/ SendResolves
    \/ SendRejects
    \/ SaveResolves
    \/ SaveRejects

ConnectSpec == ConnectInit /\ [][ConnectNext]_vars

CallNames == [k \in 1 .. Len(sdkCalls) |-> sdkCalls[k].call]

IsPrefix(s, t) == Len(s) <= Len(t) /\ s = SubSeq(t, 1, Len(s))

MessageSent == "sendMessage" \in Range(CallNames)

\* C18: the connect script issues submitConnectionRequest, then
\* waitForConnectionConfirmation for the id of that request on the same
\* topic, then sendMessage, in this order; the message is sent and the
\* connection file written only after the confirmation arrived with a
\* connection topic, on which the message is sent; after a timeout no
\* message is sent and no file is written.
TheoremC18 ==
    /\ IsPrefix(CallNames, <<"submitConnectionRequest",
                             "waitForConnectionConfirmation", "sendMessage">>)
    /\ Len(sdkCalls) >= 2 =>
         sdkCalls[2] = WaitCall(sdkCalls[1].args[1], requestId)
    /\ (MessageSent \/ connectionFiles # {}) =>
         /\ connectionTopicId \in ConnectionTopics
         /\ ~timedOut
         /\ sdkCalls[3] = SendCall(connectionTopicId)
    /\ connectionFiles # {} => MessageSent
    /\ timedOut => (~MessageSent /\ connectionFiles = {})

\* C18 witness: the script ran to its end with the file written
WitnessC18 ==
    /\ cpc = "completed"
    /\ Len(sdkCalls) = 3
    /\ \E f \in connectionFiles : f.content.connectionTopicId = connectionTopicId

\* ================================================= the registration script
\* src/02_agent_registration/register-agent.ts.  The .env file is kept as
\* the list of its lines, the list that split('\n') gives and join('\n')
\* writes: a line key=value is <<key, value>>, an empty line is <<>>, any
\* other line is <<text>>.  A file whose last line is <<>> ends with a
\* newline.
MaxRegistrations == 2   \* runs of the registration script

Blank == <<>>

KV(key, value) == <<key, value>>

Missing == <<>>

Fields == {"accountId", "privateKey", "inboundTopicId", "outboundTopicId",
           "profileTopicId"}

\* the part of the key after the prefix: lines 232-240
Suffix(field) ==
    CASE field = "accountId"       -> "_ACCOUNT_ID"
      [] field = "privateKey"      -> "_PRIVATE_KEY"
      [] field = "inboundTopicId"  -> "_INBOUND_TOPIC_ID"
      [] field = "outboundTopicId" -> "_OUTBOUND_TOPIC_ID"
      [] field = "profileTopicId"  -> "_PROFILE_TOPIC_ID"

EnvKey(prefix, field) == prefix \o Suffix(field)

KeysOf(prefix) == {EnvKey(prefix, field) : field \in Fields}

\* the ids the network gives to the agent created by run n; run 0 stands
\* for an agent created before the first run of the model
AgentMetadata(n) ==
    [accountId       |-> "0.0." \o ToString(10 * n + 1),
     privateKey      |-> "302e" \o ToString(n),
     inboundTopicId  |-> "0.0." \o ToString(10 * n + 2),
     outboundTopicId |-> "0.0." \o ToString(10 * n + 3),
     profileTopicId  |-> "0.0." \o ToString(10 * n + 4)]

\* what the SDK reports of it: any field may be missing ("")
ReportedMetadata(n) ==
    {[field \in Fields |-> IF field \in known THEN AgentMetadata(n)[field] ELSE ""] :
        known \in SUBSET Fields}

AgentLines(prefix, n) ==
    <<KV(EnvKey(prefix, "accountId"), AgentMetadata(n).accountId),
      KV(EnvKey(prefix, "privateKey"), AgentMetadata(n).privateKey),
      KV(EnvKey(prefix, "inboundTopicId"), AgentMetadata(n).inboundTopicId),
      KV(EnvKey(prefix, "outboundTopicId"), AgentMetadata(n).outboundTopicId),
      KV(EnvKey(prefix, "profileTopicId"), AgentMetadata(n).profileTopicId)>>

HederaLines ==
    <<KV("HEDERA_ACCOUNT_ID", "0.0.2"), KV("HEDERA_PRIVATE_KEY", "302e")>>

\* the .env files the scripts may find
InitialEnvFiles ==
    {Missing,
     <<Blank>>,
     HederaLines,
     HederaLines \o <<Blank>>,
     HederaLines \o AgentLines("DEMO", 0) \o <<Blank>>,
     HederaLines \o <<Blank, <<"# Bob Agent (Listener)">>>> \o AgentLines("BOB", 0)
        \o <<Blank>>}

\* line 23: line.startsWith(`${key}=`)
StartsWithKey(line, key) == Len(line) = 2 /\ line[1] = key

\* line 23: findIndex; 0 stands for -1
FindIndex(lines, key) ==
    LET hits == {i \in 1 .. Len(lines) : StartsWithKey(lines[i], key)}
    IN  IF hits = {} THEN 0 ELSE CHOOSE i \in hits : \A j \in hits : i <= j

\* lines 22-30, one entry of variables
SetVariable(lines, entry) ==
    LET lineIndex == FindIndex(lines, entry[1])
    IN  IF lineIndex # 0
        THEN [lines EXCEPT ![lineIndex] = KV(entry[1], entry[2])]
        ELSE Append(lines, KV(entry[1], entry[2]))

\* lines 22-30: the entries of variables in insertion order
RECURSIVE SetVariables(_, _)
SetVariables(lines, variables) ==
    IF variables = <<>> THEN lines
    ELSE SetVariables(SetVariable(lines, Head(variables)), Tail(variables))

\* lines 10-38; file and result are lists of lines
updateEnvFile(file, variables) ==
    LET envLines     == IF file = Missing THEN <<Blank>> ELSE file
        updatedLines == SetVariables(envLines, variables)
    IN  IF Last(updatedLines) # Blank
        THEN Append(updatedLines, Blank)
        ELSE updatedLines

\* `${value}` of a field the metadata lacks
Template(value) == IF value = "" THEN "undefined" ELSE value

\* lines 230-240
EnvUpdates(prefix, md) ==
    <<KV(EnvKey(prefix, "accountId"), md.accountId),
      KV(EnvKey(prefix, "privateKey"), md.privateKey),
      KV(EnvKey(prefix, "inboundTopicId"), Template(md.inboundTopicId)),
      KV(EnvKey(prefix, "outboundTopicId"), Template(md.outboundTopicId))>>
    \o (IF md.profileTopicId # ""
        THEN <<KV(EnvKey(prefix, "profileTopicId"), md.profileTopicId)>>
        ELSE <<>>)

\* lines 57-75
PrefixOf(input) ==
    IF input = "1" THEN "ALICE" ELSE IF input = "2" THEN "BOB" ELSE "DEMO"

AgentTypeInputs == {"", "1", "2", "3"}

\* process.env[key] after dotenv.config(): the last line of .env for key
GetEnv(file, key) ==
    LET hits == {i \in 1 .. Len(file) : StartsWithKey(file[i], key)}
    IN  IF hits = {} THEN ""
        ELSE file[CHOOSE i \in hits : \A j \in hits : j <= i][2]

\* lines 215-223: the agentConfig object, without its createdAt time stamp
AgentConfig(name, md) ==
    [name |-> name, accountId |-> md.accountId, privateKey |-> md.privateKey,
     inboundTopicId |-> md.inboundTopicId, outboundTopicId |-> md.outboundTopicId,
     profileTopicId |-> md.profileTopicId]

\* lines 63-73; the custom name is the default of line 72
AgentName(input) ==
    IF input = "1" THEN "Alice" ELSE IF input = "2" THEN "Bob" ELSE "HackathonBot"

\* the agent-config.json the scripts may find: none, or one written by
\* another tool for an earlier agent
InitialConfigFiles == {<<>>, <<AgentConfig("Bob", AgentMetadata(0))>>}

\* the registration script and the monitor script are run from a shell, one
\* at a time, in a directory with one of the .env files
RegisterInit ==
    /\ MonitorInit
    /\ ConnectIdle
    /\ LaterIdle
    /\ rpc = "shell"
    /\ agentTypeInput = ""
    /\ envPrefix = "DEMO"
    /\ metadata = NoMetadata
    /\ envFile \in InitialEnvFiles
    /\ registrations = 0
    /\ envBefore = envFile
    /\ monitorMain = "idle"
    /\ inboundTopicId = ""
    /\ monitorAt = 0
    /\ agentConfigFile \in InitialConfigFiles
    /\ configReported = FALSE
    /\ profileMain = "idle"

AtShell == rpc \in {"shell", "done", "returned", "exit1"}

\* lines 40-182: the script is started, the prompts are answered and
\* createAndRegisterAgent is issued
ChooseAgentType ==
    /\ AtShell
    /\ registrations < MaxRegistrations
    /\ registrations' = registrations + 1
    /\ \E input \in AgentTypeInputs :
         /\ agentTypeInput' = (IF input = "" THEN "3" ELSE input)
         /\ envPrefix' = PrefixOf(IF input = "" THEN "3" ELSE input)
    /\ metadata' = NoMetadata
    /\ envBefore' = envFile
    /\ rpc' = "register"
    /\ configReported' = FALSE
    /\ profileMain' = "idle"
    /\ UNCHANGED <<envFile, monitorMain, inboundTopicId, monitorAt, agentConfigFile>>
    /\ UNCHANGED <<monitorVars, connectVars, laterScripts>>

\* lines 190-194, 213-227: step 4 'Saving agent configuration' builds the
\* object and logs its path; file is agent-config.json before and after
SaveConfig(file, input, md) ==
    IF md.accountId = ""
    THEN [file |-> file, reported |-> FALSE]
    ELSE [file |-> file, reported |-> TRUE]

\* lines 126-194, 213-229: createAndRegisterAgent resolves
RegisterResolves ==
    /\ rpc = "register"
    /\ \E md \in ReportedMetadata(registrations) :
         /\ metadata' = md
         /\ rpc' = IF md.accountId = "" THEN "returned" ELSE "update"
         /\ configReported' = SaveConfig(agentConfigFile, agentTypeInput, md).reported
         /\ agentConfigFile' = SaveConfig(agentConfigFile, agentTypeInput, md).file
    /\ UNCHANGED <<agentTypeInput, envPrefix, envFile, registrations, envBefore,
                   monitorMain, inboundTopicId, monitorAt, profileMain>>
    /\ UNCHANGED <<monitorVars, connectVars, laterScripts>>

\* lines 206-211, 255-258: createAndRegisterAgent rejects
RegisterRejects ==
    /\ rpc = "register"
    /\ rpc' = "exit1"
    /\ UNCHANGED <<agentTypeInput, envPrefix, metadata, envFile, registrations,
                   envBefore, monitorMain, inboundTopicId, monitorAt, configVars>>
    /\ UNCHANGED <<monitorVars, connectVars, laterScripts>>

\* lines 229-246, 10-38: updateEnvFile reads and writes .env
UpdateEnv ==
    /\ rpc = "update"
    /\ envFile' = updateEnvFile(envFile, EnvUpdates(envPrefix, metadata))
    /\ rpc' = "done"
    /\ UNCHANGED <<agentTypeInput, envPrefix, metadata, registrations, envBefore,
                   monitorMain, inboundTopicId, monitorAt, configVars>>
    /\ UNCHANGED <<monitorVars, connectVars, laterScripts>>

\* lines 37, 255-258: writeFile rejects
UpdateEnvRejects ==
    /\ rpc = "update"
    /\ rpc' = "exit1"
    /\ UNCHANGED <<agentTypeInput, envPrefix, metadata, envFile, registrations,
                   envBefore, monitorMain, inboundTopicId, monitorAt, configVars>>
    /\ UNCHANGED <<monitorVars, connectVars, laterScripts>>

\* src/AGENT_WORKFLOW.md:324-336: the topic the monitor's main hands to
\* monitorIncomingRequests, or the exit
MonitorTopic(file) ==
    LET accountId  == IF GetEnv(file, "DEMO_ACCOUNT_ID") # ""
                      THEN GetEnv(file, "DEMO_ACCOUNT_ID")
                      ELSE GetEnv(file, "HEDERA_ACCOUNT_ID")
        privateKey == IF GetEnv(file, "DEMO_PRIVATE_KEY") # ""
                      THEN GetEnv(file, "DEMO_PRIVATE_KEY")
                      ELSE GetEnv(file, "HEDERA_PRIVATE_KEY")
        inbound    == GetEnv(file, "DEMO_INBOUND_TOPIC_ID")
    IN  IF accountId = "" \/ privateKey = "" \/ inbound = ""
        THEN [main |-> "exit1", inboundTopicId |-> ""]
        ELSE [main |-> "listening", inboundTopicId |-> inbound]

\* src/AGENT_WORKFLOW.md:210, 317-390: the monitor script is started
StartMonitor ==
    /\ AtShell
    /\ monitorMain' = MonitorTopic(envFile).main
    /\ inboundTopicId' = MonitorTopic(envFile).inboundTopicId
    /\ monitorAt' = registrations
    /\ UNCHANGED <<rpc, agentTypeInput, envPrefix, metadata, envFile, registrations,
                   envBefore, configVars>>
    /\ UNCHANGED <<monitorVars, connectVars, laterScripts>>

\* src/unnamed/part_008:15-29: the profile script is started and reads
\* agent-config.json
StartProfile ==
    /\ AtShell
    /\ profileMain' = (IF agentConfigFile = <<>> THEN "exit1" ELSE "found")
    /\ UNCHANGED <<rpc, agentTypeInput, envPrefix, metadata, envFile, registrations,
                   envBefore, monitorMain, inboundTopicId, monitorAt,
                   agentConfigFile, configReported>>
    /\ UNCHANGED <<monitorVars, connectVars, laterScripts>>

RegisterNext ==
    \/ StartProfile
    \/ ChooseAgentType
    \/ RegisterResolves
    \/ RegisterRejects
    \/ UpdateEnv
    \/ UpdateEnvRejects
    \/ StartMonitor

RegisterSpec == RegisterInit /\ [][RegisterNext]_vars

\* the lines of a file that set key, in order
KeyLines(file, key) == SelectSeq(file, LAMBDA line : StartsWithKey(line, key))

\* the keys set by the lines of a file
KeysIn(file) == {file[i][1] : i \in {j \in 1 .. Len(file) : Len(file[j]) = 2}}

Registered == rpc = "done" /\ agentTypeInput \in {"1", "2"}

\* C19: after a successful registration with agent type 2 (prefix BOB) or
\* 1 (prefix ALICE), .env has for each of ACCOUNT_ID, PRIVATE_KEY,
\* INBOUND_TOPIC_ID, OUTBOUND_TOPIC_ID and PROFILE_TOPIC_ID a line under
\* that prefix with the value of the new agent, and the lines of every other
\* key are as they were.
ClaimC19 ==
    Registered =>
        /\ envPrefix = (IF agentTypeInput = "2" THEN "BOB" ELSE "ALICE")
        /\ \A field \in Fields :
             GetEnv(envFile, EnvKey(envPrefix, field)) = metadata[field]
        /\ \A field \in Fields :
             FindIndex(envFile, EnvKey(envPrefix, field)) # 0
        /\ \A key \in (KeysIn(envFile) \cup KeysIn(envBefore)) \ KeysOf(envPrefix) :
             KeyLines(envFile, key) = KeyLines(envBefore, key)

\* C20: the monitor script started after a registration as type 2 (Bob)
\* listens on the inbound topic that this registration saved under
\* BOB_INBOUND_TOPIC_ID.
ClaimC20 ==
    (/\ monitorMain # "idle"
     /\ monitorAt = registrations
     /\ Registered
     /\ agentTypeInput = "2"
     /\ metadata.inboundTopicId # "")
    => (/\ monitorMain = "listening"
        /\ inboundTopicId = metadata.inboundTopicId
        /\ inboundTopicId = GetEnv(envFile, "BOB_INBOUND_TOPIC_ID"))

\* C21: after a successful run of the registration script agent-config.json
\* holds the data of the new agent, as the script reported, and the profile
\* script started next finds it.
ClaimC21 ==
    rpc = "done" =>
        /\ configReported
        /\ agentConfigFile = <<AgentConfig(AgentName(agentTypeInput), metadata)>>
        /\ profileMain \in {"idle", "found"}

\* ========================================================== the chat agent
\* class ConversationalAgent, src/03_agent_connections/connect-agents.ts,
\* lines 693-787, driven by the chat loop of lines 610-651, which awaits each
\* processMessage before it reads the next input.
MaxChatTurns == 4   \* processMessage calls of a session
MaxMemoryK == 2     \* largest config.memory.k

OtherThanChat == <<monitorVars, connectVars, registerVars, responderVars, retryVars,
                   updateVars>>

SystemMessage == [role |-> "system", content |-> "You are a helpful AI assistant"]

UserMessage(text) == [role |-> "user", content |-> text]

AssistantMessage(text) == [role |-> "assistant", content |-> text]

\* what the user types at 'You: '
UserInputs == {"hello", "tell me about hedera"}

\* lines 734-781: the canned answer chosen by keyword
simulateResponse(message) ==
    IF message = "tell me about hedera"
    THEN "Hedera is a public distributed ledger"
    ELSE "I'm here to help you understand Hedera"

\* Array.prototype.slice(-n) for n > 0
SliceLast(s, n) == IF n >= Len(s) THEN s ELSE SubSeq(s, Len(s) - n + 1, Len(s))

\* lines 714-719
KeepRecent(msgs, k) ==
    IF k # 0
    THEN LET systemMessage  == msgs[1]
             recentMessages == SliceLast(msgs, k * 2)
         IN  <<systemMessage>> \o recentMessages
    ELSE msgs

\* lines 783-786
getConversationHistory(msgs) == Tail(msgs)

\* lines 568-586, 698-704: the agent is constructed with buffer memory
ChatInit ==
    /\ MonitorInit
    /\ ConnectIdle
    /\ RegisterIdle
    /\ ResponderIdle
    /\ RetryIdle
    /\ UpdateIdle
    /\ chatpc = "prompt"
    /\ memoryK \in 1 .. MaxMemoryK
    /\ chatMessages = <<SystemMessage>>
    /\ chatTurns = 0
    /\ transcript = <<>>

\* lines 611-626, 707-723: processMessage up to its await
ProcessMessage ==
    /\ chatpc = "prompt"
    /\ chatTurns < MaxChatTurns
    /\ \E userInput \in UserInputs :
         /\ chatMessages' = KeepRecent(Append(chatMessages, UserMessage(userInput)),
                                       memoryK)
         /\ transcript' = Append(transcript, UserMessage(userInput))
    /\ chatTurns' = chatTurns + 1
    /\ chatpc' = "responding"
    /\ UNCHANGED memoryK
    /\ UNCHANGED OtherThanChat

\* lines 723-731: simulateResponse resolves
ResponseArrives ==
    /\ chatpc = "responding"
    /\ LET response == simulateResponse(Last(transcript).content)
       IN  /\ chatMessages' = Append(chatMessages, AssistantMessage(response))
           /\ transcript' = Append(transcript, AssistantMessage(response))
    /\ chatpc' = "prompt"
    /\ UNCHANGED <<memoryK, chatTurns>>
    /\ UNCHANGED OtherThanChat

\* lines 613-615, 653-656: the user types exit
EndSession ==
    /\ chatpc = "prompt"
    /\ chatpc' = "summary"
    /\ UNCHANGED <<memoryK, chatMessages, chatTurns, transcript>>
    /\ UNCHANGED OtherThanChat

ChatNext ==
    \/ ProcessMessage
    \/ ResponseArrives
    \/ EndSession

ChatSpec == ChatInit /\ [][ChatNext]_vars

\* no processMessage call is awaiting
CallsReturned == chatpc \in {"prompt", "summary"}

\* C22: after any sequence of processMessage calls getConversationHistory
\* returns retained user and assistant messages of the session, in their
\* order, and no system prompt.
ClaimC22 ==
    CallsReturned =>
        LET history == getConversationHistory(chatMessages)
        IN  /\ \A k \in 1 .. Len(history) : history[k].role # "system"
            /\ history = SliceLast(transcript, Len(history))

\* C23: after any sequence of processMessage calls the agent holds the
\* system prompt first, followed by at most memory.k messages, the last ones
\* of the conversation.
ClaimC23 ==
    CallsReturned =>
        /\ chatMessages[1] = SystemMessage
        /\ Len(chatMessages) - 1 <= memoryK
        /\ Tail(chatMessages) = SliceLast(transcript, Len(chatMessages) - 1)

\* =========================================================== the responder
\* src/05_ai_agent_basic/agent-responses.ts, lines 112-250: the subscriber
\* callback of the monitored topic and the senders of messages.  A callback
\* runs from its start to its first await as one step; the subscription may
\* deliver an entry again at any time.
MaxUserMessages == 2     \* messages users send to the topic
MaxResponderTopic == 4   \* entries of the topic
MaxRedeliveries == 1     \* times the subscription delivers an entry again

OtherThanResponder == <<monitorVars, connectVars, registerVars, chatVars, retryVars,
                        updateVars>>

\* shapes of the contents users send: JSON or plain text with a content, or
\* JSON without a content field
Shapes == {"message", "no content"}

TopicEntry(n, t, sender, shape, inReplyTo) ==
    [sequenceNumber |-> n, seconds |-> t, sender |-> sender, shape |-> shape,
     inReplyTo |-> inReplyTo]

\* line 123: `${message.consensusTimestamp.seconds}-${message.sequenceNumber}`
MessageId(m) == <<m.seconds, m.sequenceNumber>>

\* the consensus second of entry n: two entries reach consensus per second
ConsensusSeconds(n) == (n + 1) \div 2

\* line 126
AlreadyProcessed_Never(processed, messageId) == FALSE

AlreadyProcessed(processed, messageId) == messageId \in processed

\* lines 112-117: the subscription is opened
ResponderInit ==
    /\ MonitorInit
    /\ ConnectIdle
    /\ RegisterIdle
    /\ ChatIdle
    /\ RetryIdle
    /\ UpdateIdle
    /\ ResponderIdle

\* lines 231-244: the test loop, or any other user, submits a message
UserSends ==
    /\ userSent < MaxUserMessages
    /\ Len(rtopic) < MaxResponderTopic
    /\ \E shape \in Shapes :
         rtopic' = Append(rtopic,
                          TopicEntry(Len(rtopic) + 1, ConsensusSeconds(Len(rtopic) + 1),
                                     "Test User", shape, <<>>))
    /\ userSent' = userSent + 1
    /\ delivered' = Append(delivered, 0)
    /\ handledTimes' = Append(handledTimes, 0)
    /\ UNCHANGED <<processedMessages, messageCount, callbacks>>
    /\ UNCHANGED OtherThanResponder

\* lines 121-181: the callback is called with entry n and runs to llm.invoke
Deliver ==
    \E n \in 1 .. Len(rtopic) :
       /\ delivered[n] <= MaxRedeliveries
       /\ delivered' = [delivered EXCEPT ![n] = @ + 1]
       /\ LET messageId == MessageId(rtopic[n])
          IN  IF AlreadyProcessed(processedMessages, messageId)
              THEN UNCHANGED <<processedMessages, messageCount, callbacks, handledTimes>>
              ELSE /\ processedMessages' = processedMessages \cup {messageId}
                   /\ messageCount' = messageCount + 1
                   /\ handledTimes' = [handledTimes EXCEPT ![n] = @ + 1]
                   /\ callbacks' =
                        IF rtopic[n].shape = "no content"
                        THEN callbacks
                        ELSE callbacks \cup
                               {[n |-> n, messageId |-> messageId, at |-> "llm",
                                 run |-> handledTimes[n] + 1]}
       /\ UNCHANGED <<rtopic, userSent>>
       /\ UNCHANGED OtherThanResponder

\* lines 181-196: llm.invoke resolves and sendMessage is issued
LlmResolves ==
    \E c \in callbacks :
       /\ c.at = "llm"
       /\ callbacks' = (callbacks \ {c}) \cup {[c EXCEPT !.at = "send"]}
       /\ UNCHANGED <<rtopic, userSent, processedMessages, messageCount, delivered,
                      handledTimes>>
       /\ UNCHANGED OtherThanResponder

\* lines 181, 205-207: llm.invoke rejects
LlmRejects ==
    \E c \in callbacks :
       /\ c.at = "llm"
       /\ callbacks' = callbacks \ {c}
       /\ UNCHANGED <<rtopic, userSent, processedMessages, messageCount, delivered,
                      handledTimes>>
       /\ UNCHANGED OtherThanResponder

\* lines 196-203: sendMessage resolves, the response is on the topic
ResponseSent ==
    \E c \in callbacks :
       /\ c.at = "send"
       /\ Len(rtopic) < MaxResponderTopic
       /\ rtopic' = Append(rtopic,
                          TopicEntry(Len(rtopic) + 1, ConsensusSeconds(Len(rtopic) + 1),
                                     "AI Agent", "message", c.messageId))
       /\ delivered' = Append(delivered, 0)
       /\ handledTimes' = Append(handledTimes, 0)
       /\ callbacks' = callbacks \ {c}
       /\ UNCHANGED <<userSent, processedMessages, messageCount>>
       /\ UNCHANGED OtherThanResponder

\* lines 196, 205-207: sendMessage rejects
ResponseRejected ==
    \E c \in callbacks :
       /\ c.at = "send"
       /\ callbacks' = callbacks \ {c}
       /\ UNCHANGED <<rtopic, userSent, processedMessages, messageCount, delivered,
                      handledTimes>>
       /\ UNCHANGED OtherThanResponder

ResponderNext ==
    \/ UserSends
    \/ Deliver
    \/ LlmResolves
    \/ LlmRejects
    \/ ResponseSent
    \/ ResponseRejected

ResponderSpec == ResponderInit /\ [][ResponderNext]_vars

Responses == {m \in Range(rtopic) : m.sender = "AI Agent"}

EntryWithId(messageId) == CHOOSE m \in Range(rtopic) : MessageId(m) = messageId

\* C24: the responder posts at most one response per message a user sent to
\* the topic and none to a response of its own, so there are never more
\* responses than user messages.
ClaimC24 ==
    /\ \A r \in Responses : EntryWithId(r.inReplyTo).sender # "AI Agent"
    /\ \A r1, r2 \in Responses : r1.inReplyTo = r2.inReplyTo => r1 = r2
    /\ Cardinality(Responses) <= userSent

HandledIds == {MessageId(rtopic[n]) : n \in {k \in 1 .. Len(rtopic) : handledTimes[k] >= 1}}

\* C25: every message id is handled at most once and messageCount is the
\* number of distinct ids handled, in every interleaving of the callbacks,
\* redelivery during an await included.
TheoremC25 ==
    /\ \A n \in 1 .. Len(rtopic) : handledTimes[n] <= 1
    /\ \A c \in callbacks : c.run = 1
    /\ messageCount = Cardinality(HandledIds)
    /\ processedMessages = HandledIds

\* C25 witness: an entry was delivered again while its callback is awaiting,
\* and another message has been handled too
WitnessC25 ==
    /\ messageCount >= 2
    /\ \E c \in callbacks : delivered[c.n] >= 2 /\ handledTimes[c.n] = 1

\* ======================================================== retryWithBackoff
\* src/unnamed/part_003, lines 60-78.  fn is any async function: each call
\* resolves with a value or rejects with an error of its own.  maxRetries
\* is an integer.
MaxRetriesArg == 4       \* largest maxRetries passed

DefaultMaxRetries == 3   \* line 62
DefaultBaseDelay == 1000 \* line 63

OtherThanRetry == <<monitorVars, connectVars, registerVars, chatVars, responderVars,
                    updateVars>>

MaxRetriesValues == (-1 .. MaxRetriesArg) \cup {DefaultMaxRetries}

BaseDelayValues == {0, 1, DefaultBaseDelay}

\* what fn may resolve with
FnValues == {"a", "b"}

Value(v) == [kind |-> "value", of |-> v]

\* the error thrown by call number n of fn
ErrorOf(n) == [kind |-> "error", of |-> n]

MaxRetriesExceeded == [kind |-> "error", of |-> "Max retries exceeded"]

Called(n)         == [type |-> "call", i |-> n, delay |-> 0]
Succeeded(n)      == [type |-> "ok", i |-> n, delay |-> 0]
Failed(n)         == [type |-> "fail", i |-> n, delay |-> 0]
Slept(n, ms)      == [type |-> "sleep", i |-> n, delay |-> ms]

RECURSIVE Pow2(_)
Pow2(n) == IF n <= 0 THEN 1 ELSE 2 * Pow2(n - 1)

\* line 70
BackoffDelay_Constant(base, n) == base

BackoffDelay(base, n) == base * Pow2(n)

\* line 68
LastAttempt_Never(n, retries) == FALSE

LastAttempt(n, retries) == n = retries - 1

\* line 64, 77: the loop head at i = n
LoopHead(n, retries, evs) ==
    IF n < retries
    THEN [pc |-> "call", result |-> <<>>, events |-> Append(evs, Called(n))]
    ELSE [pc |-> "rejected", result |-> MaxRetriesExceeded, events |-> evs]

\* the arguments of one call
RetryInit ==
    /\ MonitorInit
    /\ ConnectIdle
    /\ RegisterIdle
    /\ ChatIdle
    /\ ResponderIdle
    /\ UpdateIdle
    /\ retrypc = "start"
    /\ maxRetries \in MaxRetriesValues
    /\ baseDelay \in BaseDelayValues
    /\ retryI = 0
    /\ result = <<>>
    /\ events = <<>>

\* lines 60-66: the call runs to its first await
EnterRetry ==
    /\ retrypc = "start"
    /\ LET next == LoopHead(0, maxRetries, events)
       IN  /\ retrypc' = next.pc
           /\ result' = next.result
           /\ events' = next.events
    /\ UNCHANGED <<maxRetries, baseDelay, retryI>>
    /\ UNCHANGED OtherThanRetry

\* line 66: fn resolves
FnResolves ==
    /\ retrypc = "call"
    /\ \E v \in FnValues : result' = Value(v)
    /\ retrypc' = "resolved"
    /\ events' = Append(events, Succeeded(retryI))
    /\ UNCHANGED <<maxRetries, baseDelay, retryI>>
    /\ UNCHANGED OtherThanRetry

\* lines 67-72: fn rejects
FnRejects ==
    /\ retrypc = "call"
    /\ IF LastAttempt(retryI, maxRetries)
       THEN /\ retrypc' = "rejected"
            /\ result' = ErrorOf(retryI)
            /\ events' = Append(events, Failed(retryI))
       ELSE /\ retrypc' = "sleep"
            /\ result' = result
            /\ events' = events \o <<Failed(retryI),
                                     Slept(retryI, BackoffDelay(baseDelay, retryI))>>
    /\ UNCHANGED <<maxRetries, baseDelay, retryI>>
    /\ UNCHANGED OtherThanRetry

\* lines 72, 64, 77: the sleep ends, i++ and the loop head
SleepEnds ==
    /\ retrypc = "sleep"
    /\ retryI' = retryI + 1
    /\ LET next == LoopHead(retryI + 1, maxRetries, events)
       IN  /\ retrypc' = next.pc
           /\ result' = next.result
           /\ events' = next.events
    /\ UNCHANGED <<maxRetries, baseDelay>>
    /\ UNCHANGED OtherThanRetry

RetryNext ==
    \/ EnterRetry
    \/ FnResolves
    \/ FnRejects
    \/ SleepEnds

RetrySpec == RetryInit /\ [][RetryNext]_vars

EventsOf(type) == {k \in 1 .. Len(events) : events[k].type = type}

Settled == retrypc \in {"resolved", "rejected"}

\* C26: for maxRetries >= 1 fn is called at most maxRetries times, no call
\* follows a call that succeeded, the call resolves with the value of the
\* first success, and after maxRetries failures it rejects with the error of
\* the last call; for maxRetries <= 0 fn is never called and the call
\* rejects with 'Max retries exceeded'.
TheoremC26 ==
    /\ maxRetries >= 1 =>
         /\ Cardinality(EventsOf("call")) <= maxRetries
         /\ \A k \in EventsOf("ok") : k = Len(events)
         /\ retrypc = "resolved" <=> EventsOf("ok") # {}
         /\ retrypc = "resolved" =>
              /\ result.kind = "value"
              /\ Cardinality(EventsOf("fail")) = Cardinality(EventsOf("call")) - 1
         /\ retrypc = "rejected" =>
              /\ Cardinality(EventsOf("fail")) = maxRetries
              /\ Last(events) = Failed(maxRetries - 1)
              /\ result = ErrorOf(maxRetries - 1)
    /\ maxRetries <= 0 =>
         /\ events = <<>>
         /\ retrypc \in {"start", "rejected"}
         /\ retrypc = "rejected" => result = MaxRetriesExceeded

\* C26 witness: every one of several calls failed
WitnessC26 ==
    /\ retrypc = "rejected"
    /\ maxRetries >= 2
    /\ Cardinality(EventsOf("call")) = maxRetries

\* C27: the sleep after failed attempt i lasts baseDelay * 2^i and exists
\* for every i < maxRetries - 1; one sleep lies between two consecutive
\* calls of fn; nothing is slept after the last failure or after a success.
TheoremC27 ==
    /\ \A k \in EventsOf("sleep") :
         /\ events[k].delay = baseDelay * (2 ^ events[k].i)
         /\ events[k].i < maxRetries - 1
         /\ events[k - 1] = Failed(events[k].i)
    /\ \A k \in EventsOf("fail") :
         IF events[k].i < maxRetries - 1
         THEN k < Len(events) /\ events[k + 1].type = "sleep"
         ELSE k = Len(events)
    /\ \A k \in EventsOf("call") :
         k > 1 => /\ events[k - 1].type = "sleep"
                  /\ events[k - 2].type = "fail"
                  /\ events[k - 3] = Called(events[k].i - 1)
    /\ \A k \in EventsOf("ok") : k = Len(events)
    /\ (Settled /\ events # <<>>) => Last(events).type # "sleep"

\* C27 witness: two sleeps of different length, then the last failure
WitnessC27 ==
    /\ retrypc = "rejected"
    /\ maxRetries = 3
    /\ baseDelay = DefaultBaseDelay
    /\ Cardinality(EventsOf("sleep")) = 2

(***************************************************************************)
(* updateEnvFile on the text of the file                                   *)
(* (src/02_agent_registration/register-agent.ts:10-38).  The file is a     *)
(* sequence of characters, a line is the text between two newlines, and a  *)
(* key or a value is any string.                                           *)
(***************************************************************************)

\* longest initial file, in characters
MaxFileLen == 4

\* largest number of entries of variables
MaxVariables == 2

\* the separator of split and join
NL == "\n"

\* the characters of the files
Chars == {"A", "1", "=", NL}

\* keys of variables: plain ones, and one that contains "="
InputKeys == {<<"A">>, <<"1">>, <<"A", "=">>}

\* values of variables: empty, plain, starting with "=", and one with a line break
InputValues == {<<>>, <<"1">>, <<"=">>, <<"1", NL>>}

\* Object.entries(variables): the keys of an object are distinct
RECURSIVE EntryLists(_)
EntryLists(n) ==
    IF n = 0 THEN {<<>>}
    ELSE LET shorter == EntryLists(n - 1)
         IN  shorter \cup
             {Append(list, <<key, value>>) :
                list \in {l \in shorter : Len(l) = n - 1},
                key \in InputKeys, value \in InputValues}

VariablesInputs ==
    {list \in EntryLists(MaxVariables) :
        \A i, j \in 1 .. Len(list) : list[i][1] = list[j][1] => i = j}

\* line 19: envContent.split('\n')
RECURSIVE split(_)
split(text) ==
    IF text = <<>> THEN <<<<>>>>
    ELSE LET rest == split(Tail(text))
         IN  IF Head(text) = NL
             THEN <<<<>>>> \o rest
             ELSE <<<<Head(text)>> \o Head(rest)>> \o Tail(rest)

\* line 37: updatedLines.join('\n')
RECURSIVE join(_)
join(lines) ==
    IF lines = <<>> THEN <<>>
    ELSE IF Len(lines) = 1 THEN lines[1]
    ELSE lines[1] \o <<NL>> \o join(Tail(lines))

\* line 23: line.startsWith(prefix)
startsWith(line, prefix) ==
    /\ Len(line) >= Len(prefix)
    /\ SubSeq(line, 1, Len(prefix)) = prefix

\* lines 23, 26, 28: `${key}=${value}`
Assignment(key, value) == key \o <<"=">> \o value

\* line 23: findIndex; 0 stands for -1
findIndex(lines, key) ==
    LET hits == {i \in 1 .. Len(lines) : startsWith(lines[i], Assignment(key, <<>>))}
    IN  IF hits = {} THEN 0 ELSE CHOOSE i \in hits : \A j \in hits : i <= j

\* lines 22-30, one entry of variables
SetLine_Push(lines, entry) == Append(lines, Assignment(entry[1], entry[2]))

SetLine(lines, entry) ==
    LET lineIndex == findIndex(lines, entry[1])
    IN  IF lineIndex # 0
        THEN [lines EXCEPT ![lineIndex] = Assignment(entry[1], entry[2])]
        ELSE Append(lines, Assignment(entry[1], entry[2]))

\* lines 22-30: the entries of variables in insertion order
RECURSIVE SetLines(_, _)
SetLines(lines, variables) ==
    IF variables = <<>> THEN lines
    ELSE SetLines(SetLine(lines, Head(variables)), Tail(variables))

\* lines 19-37: from the content read to the content written
UpdateEnvText_AlwaysPush(content, variables) ==
    join(Append(SetLines(split(content), variables), <<>>))

UpdateEnvText(content, variables) ==
    LET envLines     == split(content)
        updatedLines == SetLines(envLines, variables)
    IN  join(IF Last(updatedLines) # <<>>
             THEN Append(updatedLines, <<>>)
             ELSE updatedLines)

\* lines 11-17: a file that cannot be read counts as empty
ReadEnvFile == IF fileExists THEN envText ELSE <<>>

\* any file, or none, and any argument
UpdateInit ==
    /\ MonitorInit
    /\ ConnectIdle
    /\ RegisterIdle
    /\ ChatIdle
    /\ ResponderIdle
    /\ RetryIdle
    /\ fileExists \in BOOLEAN
    /\ envText \in UNION {[1 .. len -> Chars] : len \in 0 .. MaxFileLen}
    /\ ~fileExists => envText = <<>>
    /\ updateArgs \in VariablesInputs
    /\ applied = 0
    /\ contentBefore = <<>>
    /\ contentOnce = <<>>

\* lines 10-38: one call with the argument, up to two in a row
ApplyUpdate ==
    /\ applied < 2
    /\ applied' = applied + 1
    /\ contentBefore' = ReadEnvFile
    /\ envText' = UpdateEnvText(ReadEnvFile, updateArgs)
    /\ fileExists' = TRUE
    /\ contentOnce' = IF applied = 0 THEN envText' ELSE contentOnce
    /\ UNCHANGED updateArgs
    /\ UNCHANGED <<monitorVars, connectVars, registerVars, chatVars, responderVars,
                   retryVars>>

UpdateNext == ApplyUpdate

UpdateSpec == UpdateInit /\ [][UpdateNext]_vars

\* the character c occurs in text
HasChar(text, c) == \E i \in 1 .. Len(text) : text[i] = c

\* no key and no value of the argument contains a line break
SingleLine(list) ==
    \A i \in 1 .. Len(list) : ~HasChar(list[i][1], NL) /\ ~HasChar(list[i][2], NL)

\* no key of the argument contains "="
PlainKeys(list) == \A i \in 1 .. Len(list) : ~HasChar(list[i][1], "=")

\* the lines the last call read and the lines of the file now
LinesBefore == split(contentBefore)

LinesAfter == split(envText)

\* the line of the entry is where the first line starting with 'key=' was,
\* or it is a new line after the lines read
LineSet(entry) ==
    LET lineIndex == findIndex(LinesBefore, entry[1])
    IN  IF lineIndex # 0
        THEN /\ lineIndex <= Len(LinesAfter)
             /\ LinesAfter[lineIndex] = Assignment(entry[1], entry[2])
        ELSE \E i \in Len(LinesBefore) + 1 .. Len(LinesAfter) :
                LinesAfter[i] = Assignment(entry[1], entry[2])

\* the lines read that no key of the argument selects are where they were
OtherLinesKept ==
    \A i \in 1 .. Len(LinesBefore) :
        (\A j \in 1 .. Len(updateArgs) : findIndex(LinesBefore, updateArgs[j][1]) # i)
            => /\ i <= Len(LinesAfter)
               /\ LinesAfter[i] = LinesBefore[i]

EndsWithNewline == envText # <<>> /\ Last(envText) = NL

ClaimC29 == applied = 2 => envText = contentOnce

\* C29 amended: a second call with the same variables leaves the content the
\* first call left when no key contains "=" and no key and no value contains
\* a line break.
TheoremC29 ==
    (applied = 2 /\ PlainKeys(updateArgs) /\ SingleLine(updateArgs))
        => envText = contentOnce

\* C29 witness: two calls with two variables on a file that was missing
WitnessC29 ==
    /\ applied = 2
    /\ Len(updateArgs) = 2
    /\ PlainKeys(updateArgs) /\ SingleLine(updateArgs)
    /\ contentOnce = join(<<<<>>,
                            Assignment(updateArgs[1][1], updateArgs[1][2]),
                            Assignment(updateArgs[2][1], updateArgs[2][2]),
                            <<>>>>)

====
